---- MODULE Spec2Model ----
(***************************************************************************)
(* Model of src/ts_hashmap.c: a fixed-capacity hash map from int to int    *)
(* with one mutex per bucket and two spinlocks (opslock, sizelock)         *)
(* guarding the counters numOps and size.                                  *)
(*                                                                         *)
(* Memory returned by malloc is not initialised by the code.  What it      *)
(* holds is a choice from UninitMaps / UninitEntries / UninitPtrs; the     *)
(* contents of an entry that was never written are chosen when the         *)
(* program first reads them.  An indeterminate pointer is NULL or Wild, an *)
(* address at which nothing is mapped: dereferencing it faults.            *)
(***************************************************************************)
EXTENDS Integers, Sequences, FiniteSets, TLC

\* ------------------------------------------------------------------ bounds
\* Total number of get/put/del calls issued in one behaviour of Spec.
MaxCalls == 2
\* Number of returned calls remembered per key (observation only).
MaxLog == 2

\* ------------------------------------------------- constants of the program
NULL == 0
INT_MAX == 2147483647
\* An indeterminate, non-NULL pointer value read from uninitialised memory.
Wild == -1

\* ------------------------------------------------------------------ inputs
Threads == {1, 2}
Capacities == {4}
Keys == {-1, 0, 1, 5}
Values == {100, INT_MAX}
Ops == {"get", "put", "del"}

\* What malloc'ed memory may hold before it is written.
UninitPtrs == {NULL, Wild}
UninitInts == {0, 5}
UninitEntries ==
  {[key |-> 0, value |-> 0, next |-> NULL], [key |-> 5, value |-> 5, next |-> Wild]}
\* The counters of the malloc'ed ts_hashmap_t, which initmap never sets.
UninitMaps == {[size |-> n, numOps |-> n] : n \in UninitInts}

\* The calls of the concrete scenario, in order.
Script ==
  << [op |-> "put", key |-> 1, value |-> 100],
     [op |-> "put", key |-> 5, value |-> 200],
     [op |-> "get", key |-> 1, value |-> 0],
     [op |-> "get", key |-> 5, value |-> 0],
     [op |-> "del", key |-> 1, value |-> 0],
     [op |-> "get", key |-> 1, value |-> 0],
     [op |-> "get", key |-> 5, value |-> 0] >>

VARIABLES
  capacity,   \* map->capacity
  table,      \* map->table[i]: pointer to the first entry of bucket i
  heap,       \* the malloc'ed ts_entry_t objects, by address 1..Len(heap)
  uninit,     \* addresses of entries whose contents are still indeterminate
  size,       \* map->size
  numOps,     \* map->numOps
  locks,      \* map->locks[i]: holder of the bucket mutex, 0 when free
  opslock,    \* holder of map->opslock, 0 when free
  sizelock,   \* holder of map->sizelock, 0 when free
  segv,       \* the process has faulted
  frees,      \* the addresses of entries passed to free(), in order
  torn,       \* freeMap has been called
  pc,         \* per thread: position in the call
  op,         \* per thread: the function being executed
  key,        \* per thread: argument key
  value,      \* per thread: argument value (put)
  current,    \* per thread: local variable current
  ret,        \* per thread: the value returned
  \* --- observation only (never read by the program's steps) ---
  abs,        \* the map the calls describe: key -> value, atomically updated
  lin,        \* per thread: results an atomic map would allow for the call
  racy,       \* per thread: the call overlapped another call on the same key
  dsize,      \* per thread: change made to size by the call
  ncalls,     \* number of calls started
  klog,       \* per key: the last MaxLog calls on that key that returned
  size0,      \* size as initmap left it
  numOps0     \* numOps as initmap left it

prog ==
  <<capacity, table, heap, uninit, size, numOps, locks, opslock, sizelock, segv,
    frees, torn>>
locals == <<pc, op, key, value, current, ret>>
ghost == <<abs, lin, racy, dsize, ncalls, klog, size0, numOps0>>
vars == <<prog, locals, ghost>>

\* ----------------------------------------------------------------- helpers
\* (unsigned int) key % c, computed without leaving 32-bit arithmetic:
\* for key < 0 the cast adds 2^32 = 65536 * 65536.
UnsignedMod(k, c) ==
  IF k >= 0 THEN k % c
  ELSE ((k % c) + (((65536 % c) * (65536 % c)) % c)) % c

hashCode(k) == UnsignedMod(k, capacity)

\* A scan that never finds the key.
ScanMiss(h, p, k, prev) == [kind |-> "end", e |-> NULL, prev |-> prev]

\* A scan that compares the wrong field of the entry with the key.
RECURSIVE ScanByValue(_, _, _, _)
ScanByValue(h, p, k, prev) ==
  IF p = NULL THEN [kind |-> "end", e |-> NULL, prev |-> prev]
  ELSE IF p = Wild THEN [kind |-> "wild", e |-> Wild, prev |-> prev]
  ELSE IF h[p].value = k THEN [kind |-> "found", e |-> p, prev |-> prev]
  ELSE ScanByValue(h, h[p].next, k, p)

\* The while loops of get/put/del over heap h: walk the chain from p looking
\* for key k.  kind "found": e is the entry with key k and prev its
\* predecessor (NULL if e is the head); "end": the chain ended at NULL;
\* "wild": the walk reached an indeterminate pointer and dereferences it.
RECURSIVE Scan(_, _, _, _)
Scan(h, p, k, prev) ==
  IF p = NULL THEN [kind |-> "end", e |-> NULL, prev |-> prev]
  ELSE IF p = Wild THEN [kind |-> "wild", e |-> Wild, prev |-> prev]
  ELSE IF h[p].key = k THEN [kind |-> "found", e |-> p, prev |-> prev]
  ELSE Scan(h, h[p].next, k, p)

\* The entries of the chain starting at p, up to NULL or Wild.
RECURSIVE Chain(_)
Chain(p) == IF p = NULL \/ p = Wild THEN {} ELSE {p} \cup Chain(heap[p].next)

\* heap once the indeterminate entries in s turn out to hold d.
Resolve(s, d) == [i \in 1..Len(heap) |-> IF i \in s THEN d ELSE heap[i]]

Active(t) == pc[t] # "idle"

\* The indices of map->table and map->locks.
Buckets == 0..(capacity - 1)

\* The entries reachable from the bucket heads.
Entries == UNION {Chain(table[i]) : i \in 0..(capacity - 1)}

\* ------------------------------------------------------------------ initmap
\* Every bucket gets a malloc'ed entry as its head; neither the entries nor
\* size and numOps are assigned.
Init ==
  /\ capacity \in Capacities
  /\ heap = [i \in 1..capacity |-> [key |-> 0, value |-> 0, next |-> NULL]]
  /\ uninit = 1..capacity
  /\ table = [i \in 0..(capacity - 1) |-> i + 1]
  /\ \E m \in UninitMaps : size = m.size /\ numOps = m.numOps
  /\ locks = [i \in 0..(capacity - 1) |-> 0]
  /\ opslock = 0
  /\ sizelock = 0
  /\ segv = FALSE
  /\ frees = << >>
  /\ torn = FALSE
  /\ pc = [t \in Threads |-> "idle"]
  /\ op = [t \in Threads |-> "get"]
  /\ key = [t \in Threads |-> 0]
  /\ value = [t \in Threads |-> 0]
  /\ current = [t \in Threads |-> NULL]
  /\ ret = [t \in Threads |-> 0]
  /\ abs = << >>
  /\ lin = [t \in Threads |-> {}]
  /\ racy = [t \in Threads |-> FALSE]
  /\ dsize = [t \in Threads |-> 0]
  /\ ncalls = 0
  /\ klog = [k \in Keys |-> << >>]
  /\ size0 = size
  /\ numOps0 = numOps

\* --------------------------------------------------- observation bookkeeping
\* The value the atomic map m gives for key k, in the code's encoding.
Rep(m, k) == IF k \in DOMAIN m THEN m[k] ELSE INT_MAX

PutAbs(m, k, v) == [x \in (DOMAIN m) \cup {k} |-> IF x = k THEN v ELSE m[x]]
DelAbs(m, k) == [x \in (DOMAIN m) \ {k} |-> m[x]]

\* Thread t takes effect on key k, turning the atomic map into m: t's call
\* must return what the map held before; every get of k in progress may
\* return what it holds now.
LinAt(t, k, m) ==
  [u \in Threads |->
     IF u = t THEN {Rep(abs, k)}
     ELSE IF Active(u) /\ op[u] = "get" /\ key[u] = k THEN lin[u] \cup {Rep(m, k)}
     ELSE lin[u]]

LogEntry(t) ==
  [op |-> op[t], value |-> value[t], ret |-> ret[t], racy |-> racy[t]]

Logged(t) ==
  LET l == Append(klog[key[t]], LogEntry(t)) IN
  [klog EXCEPT ![key[t]] = IF Len(l) > MaxLog THEN Tail(l) ELSE l]

\* ------------------------------------------------------- steps common to all
\* Thread t enters o(map, k) or o(map, k, v).
Invoke(t, o, k, v) ==
  /\ ~segv /\ pc[t] = "idle"
  /\ op' = [op EXCEPT ![t] = o]
  /\ key' = [key EXCEPT ![t] = k]
  /\ value' = [value EXCEPT ![t] = v]
  /\ LET clash == {u \in Threads \ {t} : Active(u) /\ key[u] = k} IN
     racy' = [u \in Threads |->
                IF u = t THEN clash # {} ELSE IF u \in clash THEN TRUE ELSE racy[u]]
  /\ lin' = [lin EXCEPT ![t] = IF o = "get" THEN {Rep(abs, k)} ELSE {}]
  /\ pc' = [pc EXCEPT ![t] = "opslock"]
  /\ current' = [current EXCEPT ![t] = NULL]
  /\ dsize' = [dsize EXCEPT ![t] = 0]
  /\ ncalls' = ncalls + 1
  /\ UNCHANGED <<prog, ret, abs, klog, size0, numOps0>>

\* A thread calls get, put or del with any key and value.  Threads are
\* interchangeable: thread 1 is the one that makes the first call.
Call(t) ==
  /\ ncalls < MaxCalls
  /\ ncalls = 0 => t = 1
  /\ \E o \in Ops, k \in Keys, v \in Values :
       /\ o # "put" => v = 100
       /\ Invoke(t, o, k, IF o = "put" THEN v ELSE 0)

\* The thread makes the next call of the scenario.
ScriptCall(t) ==
  /\ ncalls < Len(Script)
  /\ LET c == Script[ncalls + 1] IN Invoke(t, c.op, c.key, c.value)

\* pthread_spin_lock(map->opslock)
LockOps(t) ==
  /\ ~segv /\ pc[t] = "opslock" /\ opslock = 0
  /\ opslock' = t
  /\ pc' = [pc EXCEPT ![t] = "numops"]
  /\ UNCHANGED <<frees, torn, capacity, table, heap, uninit, size, numOps, locks, sizelock, segv,
                 op, key, value, current, ret, ghost>>

\* The counter update without the pthread_spin_unlock that follows it.
IncOpsKeep(t) ==
  /\ ~segv /\ pc[t] = "numops" /\ opslock = t
  /\ numOps' = numOps + 1
  /\ pc' = [pc EXCEPT ![t] = "bucketlock"]
  /\ UNCHANGED <<frees, torn, capacity, table, heap, uninit, size, locks, opslock, sizelock, segv,
                 op, key, value, current, ret, ghost>>

\* map->numOps++; pthread_spin_unlock(map->opslock)
IncOps(t) ==
  /\ ~segv /\ pc[t] = "numops" /\ opslock = t
  /\ numOps' = numOps + 1
  /\ opslock' = 0
  /\ pc' = [pc EXCEPT ![t] = "bucketlock"]
  /\ UNCHANGED <<frees, torn, capacity, table, heap, uninit, size, locks, sizelock, segv,
                 op, key, value, current, ret, ghost>>

\* A bucket mutex that does not make the caller wait for its holder.
LockBucketNoWait(t) ==
  LET here == hashCode(key[t])
      unread == Chain(table[here]) \cap uninit IN
  /\ ~segv /\ pc[t] = "bucketlock"
  /\ locks' = [locks EXCEPT ![here] = t]
  /\ pc' = [pc EXCEPT ![t] = "scan"]
  /\ \E d \in UninitEntries : heap' = Resolve(unread, d)
  /\ uninit' = uninit \ unread
  /\ UNCHANGED <<frees, torn, capacity, table, size, numOps, opslock, sizelock, segv,
                 op, key, value, current, ret, ghost>>

\* here = hashCode(map, key); pthread_mutex_lock(map->locks[here]).
\* The scan that follows is the first read of the entry initmap allocated
\* for this bucket, if no call has read it yet: its indeterminate contents
\* are chosen here.
LockBucket(t) ==
  LET here == hashCode(key[t])
      unread == Chain(table[here]) \cap uninit IN
  /\ ~segv /\ pc[t] = "bucketlock" /\ locks[here] = 0
  /\ locks' = [locks EXCEPT ![here] = t]
  /\ pc' = [pc EXCEPT ![t] = "scan"]
  /\ \E d \in UninitEntries : heap' = Resolve(unread, d)
  /\ uninit' = uninit \ unread
  /\ UNCHANGED <<frees, torn, capacity, table, size, numOps, opslock, sizelock, segv,
                 op, key, value, current, ret, ghost>>

\* The scan dereferenced an indeterminate pointer: the process faults and
\* no thread takes another step.
Fault(t) ==
  /\ segv' = TRUE
  /\ pc' = [pc EXCEPT ![t] = "segv"]
  /\ UNCHANGED <<frees, torn, capacity, table, heap, uninit, size, numOps, locks, opslock, sizelock,
                 op, key, value, current, ret, ghost>>

\* pthread_spin_lock(map->sizelock)
LockSize(t) ==
  /\ ~segv /\ pc[t] = "sizelock" /\ sizelock = 0
  /\ sizelock' = t
  /\ pc' = [pc EXCEPT ![t] = "size"]
  /\ UNCHANGED <<frees, torn, capacity, table, heap, uninit, size, numOps, locks, opslock, segv,
                 op, key, value, current, ret, ghost>>

\* The call returns ret[t] to its caller.
Return(t) ==
  /\ ~segv /\ pc[t] = "ret"
  /\ pc' = [pc EXCEPT ![t] = "idle"]
  /\ klog' = Logged(t)
  /\ UNCHANGED <<prog, op, key, value, current, ret,
                 abs, lin, racy, dsize, ncalls, size0, numOps0>>

\* ---------------------------------------------------------------------- get
\* Lines 43-52: scan under the bucket lock, unlock.
GetScan(t) ==
  LET here == hashCode(key[t])
      s == Scan(heap, table[here], key[t], NULL) IN
  /\ ~segv /\ pc[t] = "scan" /\ op[t] = "get" /\ locks[here] = t
  /\ \/ /\ s.kind = "found"
        /\ locks' = [locks EXCEPT ![here] = 0]
        /\ current' = [current EXCEPT ![t] = s.e]
        /\ pc' = [pc EXCEPT ![t] = "getread"]
        /\ UNCHANGED <<frees, torn, capacity, table, heap, uninit, size, numOps, opslock, sizelock,
                       segv, op, key, value, ret, ghost>>
     \/ /\ s.kind = "end"
        /\ locks' = [locks EXCEPT ![here] = 0]
        /\ ret' = [ret EXCEPT ![t] = INT_MAX]
        /\ pc' = [pc EXCEPT ![t] = "ret"]
        /\ UNCHANGED <<frees, torn, capacity, table, heap, uninit, size, numOps, opslock, sizelock,
                       segv, op, key, value, current, ghost>>
     \/ /\ s.kind = "wild"
        /\ Fault(t)

\* Line 47: return current->value, read after the bucket lock was released.
GetRead(t) ==
  /\ ~segv /\ pc[t] = "getread"
  /\ ret' = [ret EXCEPT ![t] = heap[current[t]].value]
  /\ pc' = [pc EXCEPT ![t] = "ret"]
  /\ UNCHANGED <<prog, op, key, value, current, ghost>>

get(t) == GetScan(t) \/ GetRead(t)

\* ---------------------------------------------------------------------- put
\* An overwrite that is lost.
OverwriteLost(h, e, v) == h

\* An overwrite that stores the value in every entry.
OverwriteEvery(h, e, v) == [i \in 1..Len(h) |-> [h[i] EXCEPT !.value = v]]

\* Line 73: current->value = value
Overwrite(h, e, v) == [h EXCEPT ![e].value = v]

\* Lines 80-87: the entry put links in front of the chain starting at head.
\* With an empty chain the code never assigns newEntry->next, which keeps
\* whatever malloc returned (g).
NewEntry(k, v, head, g) ==
  [key |-> k, value |-> v, next |-> IF head = NULL THEN g ELSE head]

\* Lines 69-88: scan under the bucket lock; overwrite, or link a new entry.
PutScan(t) ==
  LET here == hashCode(key[t])
      s == Scan(heap, table[here], key[t], NULL) IN
  /\ ~segv /\ pc[t] = "scan" /\ op[t] = "put" /\ locks[here] = t
  /\ \/ /\ s.kind = "found"
        /\ heap' = Overwrite(heap, s.e, value[t])
        /\ ret' = [ret EXCEPT ![t] = heap[s.e].value]
        /\ locks' = [locks EXCEPT ![here] = 0]
        /\ pc' = [pc EXCEPT ![t] = "ret"]
        /\ abs' = PutAbs(abs, key[t], value[t])
        /\ lin' = LinAt(t, key[t], abs')
        /\ UNCHANGED <<frees, torn, capacity, table, uninit, size, numOps, opslock, sizelock, segv,
                       op, key, value, current,
                       racy, dsize, ncalls, klog, size0, numOps0>>
     \/ /\ s.kind = "end"
        /\ \E g \in UninitPtrs :
             heap' = Append(heap, NewEntry(key[t], value[t], table[here], g))
        /\ table' = [table EXCEPT ![here] = Len(heap) + 1]
        /\ locks' = [locks EXCEPT ![here] = 0]
        /\ pc' = [pc EXCEPT ![t] = "sizelock"]
        /\ abs' = PutAbs(abs, key[t], value[t])
        /\ lin' = LinAt(t, key[t], abs')
        /\ UNCHANGED <<frees, torn, capacity, uninit, size, numOps, opslock, sizelock, segv,
                       op, key, value, current, ret,
                       racy, dsize, ncalls, klog, size0, numOps0>>
     \/ /\ s.kind = "wild"
        /\ Fault(t)

\* The size update of put without the pthread_spin_unlock that follows it.
PutSizeKeep(t) ==
  /\ ~segv /\ pc[t] = "size" /\ op[t] = "put" /\ sizelock = t
  /\ size' = size + 1
  /\ ret' = [ret EXCEPT ![t] = INT_MAX]
  /\ pc' = [pc EXCEPT ![t] = "ret"]
  /\ dsize' = [dsize EXCEPT ![t] = dsize[t] + 1]
  /\ UNCHANGED <<frees, torn, capacity, table, heap, uninit, numOps, locks, opslock, sizelock, segv,
                 op, key, value, current,
                 abs, lin, racy, ncalls, klog, size0, numOps0>>

\* Lines 90-92: map->size++; pthread_spin_unlock(map->sizelock); return INT_MAX
PutSize(t) ==
  /\ ~segv /\ pc[t] = "size" /\ op[t] = "put" /\ sizelock = t
  /\ size' = size + 1
  /\ sizelock' = 0
  /\ ret' = [ret EXCEPT ![t] = INT_MAX]
  /\ pc' = [pc EXCEPT ![t] = "ret"]
  /\ dsize' = [dsize EXCEPT ![t] = dsize[t] + 1]
  /\ UNCHANGED <<frees, torn, capacity, table, heap, uninit, numOps, locks, opslock, segv,
                 op, key, value, current,
                 abs, lin, racy, ncalls, klog, size0, numOps0>>

put(t) == PutScan(t) \/ PutSize(t)

\* ---------------------------------------------------------------------- del
\* Lines 126-127: take the entry with successor nx and predecessor prev out
\* of the chain of bucket here.  Yields the new <<table, heap>>.
Unlink(tb, h, here, prev, nx) ==
  IF prev = NULL
  THEN <<[tb EXCEPT ![here] = nx], h>>
  ELSE <<tb, [h EXCEPT ![prev].next = nx]>>

\* Lines 107-128: scan under the bucket lock; unlink the entry if found.
DelScan(t) ==
  LET here == hashCode(key[t])
      s == Scan(heap, table[here], key[t], NULL) IN
  /\ ~segv /\ pc[t] = "scan" /\ op[t] = "del" /\ locks[here] = t
  /\ \/ /\ s.kind = "found"
        /\ LET u == Unlink(table, heap, here, s.prev, heap[s.e].next) IN
           table' = u[1] /\ heap' = u[2]
        /\ current' = [current EXCEPT ![t] = s.e]
        /\ locks' = [locks EXCEPT ![here] = 0]
        /\ pc' = [pc EXCEPT ![t] = "sizelock"]
        /\ abs' = DelAbs(abs, key[t])
        /\ lin' = LinAt(t, key[t], abs')
        /\ UNCHANGED <<frees, torn, capacity, uninit, size, numOps, opslock, sizelock, segv,
                       op, key, value, ret,
                       racy, dsize, ncalls, klog, size0, numOps0>>
     \/ /\ s.kind = "end"
        /\ locks' = [locks EXCEPT ![here] = 0]
        /\ ret' = [ret EXCEPT ![t] = INT_MAX]
        /\ pc' = [pc EXCEPT ![t] = "ret"]
        /\ abs' = DelAbs(abs, key[t])
        /\ lin' = LinAt(t, key[t], abs')
        /\ UNCHANGED <<frees, torn, capacity, table, heap, uninit, size, numOps, opslock, sizelock,
                       segv, op, key, value, current,
                       racy, dsize, ncalls, klog, size0, numOps0>>
     \/ /\ s.kind = "wild"
        /\ Fault(t)

\* Lines 130-131: map->size--; pthread_spin_unlock(map->sizelock)
DelSize(t) ==
  /\ ~segv /\ pc[t] = "size" /\ op[t] = "del" /\ sizelock = t
  /\ size' = size - 1
  /\ sizelock' = 0
  /\ pc' = [pc EXCEPT ![t] = "delread"]
  /\ dsize' = [dsize EXCEPT ![t] = dsize[t] - 1]
  /\ UNCHANGED <<frees, torn, capacity, table, heap, uninit, numOps, locks, opslock, segv,
                 op, key, value, current, ret,
                 abs, lin, racy, ncalls, klog, size0, numOps0>>

\* Line 132: return current->value
DelRead(t) ==
  /\ ~segv /\ pc[t] = "delread"
  /\ ret' = [ret EXCEPT ![t] = heap[current[t]].value]
  /\ pc' = [pc EXCEPT ![t] = "ret"]
  /\ UNCHANGED <<prog, op, key, value, current, ghost>>

del(t) == DelScan(t) \/ DelSize(t) \/ DelRead(t)

\* ------------------------------------------------------------------ freeMap
\* The chain starting at p in heap h runs into an indeterminate pointer.
RECURSIVE EndsWild(_, _)
EndsWild(h, p) ==
  IF p = NULL THEN FALSE ELSE IF p = Wild THEN TRUE ELSE EndsWild(h, h[p].next)

\* Lines 172-176: the entries the while loop passes to free(), in order.
RECURSIVE Walk(_, _)
Walk(h, p) ==
  IF p = NULL \/ p = Wild THEN << >> ELSE <<p>> \o Walk(h, h[p].next)

\* Lines 169-180 for buckets i, i+1, ...: the pointers passed to free().
\* After the loop has freed a chain, line 177 frees map->table[i], which
\* still points to the first entry of that chain (free(NULL) does nothing).
\* The loop faults when it reaches an indeterminate pointer.  Freeing an
\* entry twice is undefined: with detect the allocator aborts the process
\* there, without it the call goes on.
RECURSIVE FreeFrom(_, _, _)
FreeFrom(h, i, detect) ==
  IF i = capacity THEN << >>
  ELSE IF EndsWild(h, table[i]) THEN Walk(h, table[i])
  ELSE IF table[i] = NULL THEN FreeFrom(h, i + 1, detect)
  ELSE Walk(h, table[i]) \o <<table[i]>>
         \o (IF detect THEN << >> ELSE FreeFrom(h, i + 1, detect))

\* Bucket i is left by the loop of freeMap without a fault or an abort.
Passed(h, i, detect) == ~EndsWild(h, table[i]) /\ (detect => table[i] = NULL)

\* Lines 162-187, called by the owner of the map once no call is in
\* progress.  The entries it reads for the first time get their contents
\* here.
freeMap ==
  LET unread == Entries \cap uninit IN
  /\ ~segv /\ ~torn /\ \A t \in Threads : pc[t] = "idle"
  /\ \E f \in [unread -> UninitEntries], detect \in BOOLEAN :
       LET h == [e \in 1..Len(heap) |-> IF e \in unread THEN f[e] ELSE heap[e]]
           reached == {i \in Buckets : \A j \in 0..(i - 1) : Passed(h, j, detect)}
           read == {e \in unread : \E i \in reached :
                      \E n \in 1..Len(Walk(h, table[i])) : Walk(h, table[i])[n] = e}
       IN /\ heap' = [e \in 1..Len(heap) |-> IF e \in read THEN h[e] ELSE heap[e]]
          /\ uninit' = uninit \ read
          /\ frees' = frees \o FreeFrom(h, 0, detect)
          /\ segv' = \E i \in reached : ~Passed(h, i, detect)
  /\ torn' = TRUE
  /\ UNCHANGED <<capacity, table, size, numOps, locks, opslock, sizelock, locals, ghost>>

\* ----------------------------------------------------------- specifications
\* The steps of a call in progress.
Step(t) ==
  \/ LockOps(t)
  \/ IncOps(t)
  \/ LockBucket(t)
  \/ get(t)
  \/ put(t)
  \/ del(t)
  \/ LockSize(t)
  \/ Return(t)

\* Two threads issuing any calls, in any interleaving.
Next == \E t \in Threads : Call(t) \/ Step(t)

Spec == Init /\ [][Next]_vars

\* The whole life of a map: calls from two threads, then freeMap.
LifetimeNext == (~torn /\ Next) \/ freeMap

Lifetime == Init /\ [][LifetimeNext]_vars

\* One thread running the scenario on a fresh map.
ScenarioNext == ScriptCall(1) \/ Step(1)

Scenario == Init /\ [][ScenarioNext]_vars

\* ------------------------------------------------------------------ notions
\* No call is in progress.
Quiescent == \A t \in Threads : pc[t] = "idle"

\* Thread t's call has ended: it is about to return, or it faulted.
Done(t) == pc[t] \in {"ret", "segv"}

\* The entries with key k in k's bucket.
KeyEntries(k) == {e \in Chain(table[hashCode(k)]) : heap[e].key = k}

\* What get(k), run alone from the current state, ends with; one result for
\* each content an entry of the chain not read so far may hold.
GetResults(k) ==
  LET here == hashCode(k)
      unread == Chain(table[here]) \cap uninit IN
  { LET h == Resolve(unread, d)
        s == Scan(h, table[here], k, NULL) IN
    [segv |-> s.kind = "wild",
     ret |-> IF s.kind = "found" THEN h[s.e].value ELSE INT_MAX]
    : d \in UninitEntries }

Returns(v) == {[segv |-> FALSE, ret |-> v]}

Last(l) == l[Len(l)]

\* Thread t's call has ended, it is o(k, ..), no other call on k overlapped
\* it, and the call on k that returned last before it was a p that no
\* other call on k overlapped either.
Follows(t, o, p) ==
  /\ Done(t) /\ op[t] = o /\ ~racy[t]
  /\ klog[key[t]] # << >>
  /\ Last(klog[key[t]]).op = p
  /\ ~Last(klog[key[t]]).racy

\* The threads whose last call was a put of a key on which exactly one call
\* has returned.
SinglePutters ==
  {t \in Threads : op[t] = "put" /\ Len(klog[key[t]]) = 1 /\ klog[key[t]][1].op = "put"}

\* All calls so far have returned and they were puts of distinct keys, one
\* by each of ncalls threads.
DistinctPutsDone ==
  /\ Quiescent /\ ncalls >= 1
  /\ \A k \in Keys : Len(klog[k]) <= 1
  /\ Cardinality(SinglePutters) = ncalls
  /\ \A t, u \in SinglePutters : t # u => key[t] # key[u]

\* What the calls of Script return according to the scenario.
Expected == <<INT_MAX, INT_MAX, 100, 200, 100, INT_MAX, 200>>

\* -------------------------------------------------------------------- claims
\* C1: per-key linearizability.  Every call returns a result that the map,
\* updated atomically at the step where each put/del takes effect, allows:
\* a put or del returns what the key held just before it took effect, a get
\* returns what the key held at some moment during the get.
C1_Linearizable == \A t \in Threads : pc[t] = "ret" => ret[t] \in lin[t]

\* C2: no lost updates.  Once N threads have each put one distinct key of a
\* fresh map and all have returned, size has grown by N and a get of each
\* key returns the value put.
C2_NoLostUpdates ==
  DistinctPutsDone =>
    /\ size = size0 + ncalls
    /\ \A k \in Keys : klog[k] # << >> => GetResults(k) = Returns(klog[k][1].value)

\* C3: whenever no call is in flight, size is the number of entries
\* reachable from the bucket heads.
C3_SizeInvariant == Quiescent => size = Cardinality(Entries)

\* C4: once all calls made on a freshly created map have returned,
\* operationCount is the number of calls made.
C4_OperationCount == (Quiescent /\ ncalls >= 1) => numOps = ncalls

\* C5: a map just returned by initmap has size 0 and operationCount 0, and
\* a get or del that is the first call on it returns absent (INT_MAX) and
\* leaves size alone.
C5_FreshAbsent ==
  /\ ncalls = 0 => (size = 0 /\ numOps = 0)
  /\ \A t \in Threads :
       (ncalls = 1 /\ Done(t) /\ op[t] \in {"get", "del"}) =>
          (pc[t] = "ret" /\ ret[t] = INT_MAX /\ dsize[t] = 0 /\ size = size0)

\* C6: round trip.  A get(K) that follows a put(K, V) with no other call on
\* K in between or overlapping returns V.
C6_RoundTrip ==
  \A t \in Threads :
    Follows(t, "get", "put") =>
      (pc[t] = "ret" /\ ret[t] = Last(klog[key[t]]).value)

C6_Witness ==
  \E t \in Threads :
    /\ Follows(t, "get", "put") /\ pc[t] = "ret"
    /\ ret[t] = 100
    /\ Cardinality(Chain(table[hashCode(key[t])])) >= 2

\* C7: overwrite.  A put(K, V2) that follows a put(K, V1) with no other call
\* on K in between or overlapping returns V1, does not change size, leaves
\* exactly one entry for K, and a get(K) after it returns V2.
C7_Overwrite ==
  \A t \in Threads :
    /\ Follows(t, "put", "put") =>
         /\ pc[t] = "ret"
         /\ ret[t] = Last(klog[key[t]]).value
         /\ dsize[t] = 0
         /\ Cardinality(KeyEntries(key[t])) = 1
         /\ GetResults(key[t]) = Returns(value[t])
    /\ ( /\ Follows(t, "get", "put")
         /\ Len(klog[key[t]]) >= 2
         /\ klog[key[t]][Len(klog[key[t]]) - 1].op = "put" ) =>
         ret[t] = Last(klog[key[t]]).value

C7_Witness ==
  \E t \in Threads :
    /\ Follows(t, "put", "put") /\ pc[t] = "ret"
    /\ Last(klog[key[t]]).value # value[t]
    /\ ret[t] = Last(klog[key[t]]).value

\* C8: deletion.  A del(K) that follows a put(K, V) with no other call on K
\* in between or overlapping returns V and lowers size by one, and a get(K)
\* after it returns absent (INT_MAX).
C8_Deletion ==
  \A t \in Threads :
    /\ Follows(t, "del", "put") =>
         /\ pc[t] = "ret"
         /\ ret[t] = Last(klog[key[t]]).value
         /\ dsize[t] = -1
         /\ GetResults(key[t]) = Returns(INT_MAX)
    /\ ( /\ Follows(t, "get", "del")
         /\ Len(klog[key[t]]) >= 2
         /\ klog[key[t]][Len(klog[key[t]]) - 1].op = "put" ) =>
         (pc[t] = "ret" /\ ret[t] = INT_MAX)

\* C9: the scenario on a fresh map of capacity 4, keys 1 and 5 colliding in
\* bucket 1: put(1,100), put(5,200), get(1), get(5), del(1), get(1), get(5)
\* return absent, absent, 100, 200, 100, absent, 200, and size ends as 1.
C9_Scenario ==
  /\ \A t \in Threads :
       (Done(t) /\ ncalls \in 1..Len(Script)) =>
          (pc[t] = "ret" /\ ret[t] = Expected[ncalls])
  /\ (Quiescent /\ ncalls = Len(Script)) => size = 1

\* C10: not-found is unambiguous.  A get(K) that follows a put(K, V) with no
\* other call on K in between or overlapping is not reported as absent,
\* i.e. does not return the value the code returns for a missing key.
C10_Unambiguous ==
  \A t \in Threads :
    (Follows(t, "get", "put") /\ pc[t] = "ret") => ret[t] # INT_MAX

\* --------------------------------------------------------------- invariants
\* C11: no duplicate keys: in every reachable state, under any interleaving
\* of calls (several threads putting the same new key included), no bucket
\* chain holds two entries with the same key.
C11_NoDuplicateKeys ==
  \A i \in Buckets : \A e1, e2 \in Chain(table[i]) :
    heap[e1].key = heap[e2].key => e1 = e2

\* Both threads put the same key at overlapping times, both are past their
\* scan, and the chain holds the key once.
C11_Witness ==
  /\ \A t \in Threads : op[t] = "put" /\ racy[t] /\ pc[t] \in {"sizelock", "size", "ret"}
  /\ key[1] = key[2]
  /\ Cardinality(KeyEntries(key[1])) = 1

\* ------------------------------------------------------------------- locks
\* Thread t is between pthread_mutex_lock and pthread_mutex_unlock of
\* bucket i (a thread that faulted there never unlocks).
InBucket(t, i) == pc[t] \in {"scan", "segv"} /\ hashCode(key[t]) = i

\* Thread t takes a step.
Moves(t) == pc'[t] # pc[t]

\* The entries and head of bucket i, and the entry being linked into it.
Written(i) ==
  {e \in 1..Len(heap') : IF e > Len(heap) THEN table'[i] = e
                          ELSE e \notin uninit /\ heap'[e] # heap[e] /\ e \in Chain(table[i])}

C12_Holders ==
  /\ \A i \in Buckets :
        /\ Cardinality({t \in Threads : InBucket(t, i)}) <= 1
        /\ \A t \in Threads : InBucket(t, i) <=> locks[i] = t
  /\ \A t \in Threads : (opslock = t <=> pc[t] = "numops")
                        /\ (sizelock = t <=> pc[t] = "size")

C12_Writes ==
  /\ \A i \in Buckets :
        (table'[i] # table[i] \/ Written(i) # {}) =>
          \E t \in Threads : locks[i] = t /\ InBucket(t, i) /\ Moves(t)
  /\ \A e \in 1..Len(heap) :
        (e \notin uninit /\ heap'[e] # heap[e]) =>
          \E i \in Buckets : e \in Chain(table[i]) /\ locks[i] # 0
  /\ numOps' # numOps => \E t \in Threads : opslock = t /\ Moves(t)
  /\ size' # size => \E t \in Threads : sizelock = t /\ Moves(t)
  /\ \A t \in Threads :
        /\ (opslock = t /\ Moves(t)) => opslock' = 0 /\ numOps' # numOps
        /\ (sizelock = t /\ Moves(t)) => sizelock' = 0 /\ size' # size

\* C12: bucket mutual exclusion: every write to a bucket's head, an entry's
\* next link or an entry's value is made by the thread that holds that
\* bucket's mutex; at most one thread holds a bucket's mutex; opslock and
\* sizelock are held only around the update of numOps and size.
C12_MutualExclusion == []C12_Holders /\ [][C12_Writes]_vars

\* One thread holds a bucket's mutex and is about to scan; the other waits
\* for the same mutex.
C12_Witness ==
  \E t, u \in Threads :
    /\ t # u /\ pc[t] = "scan" /\ pc[u] = "bucketlock"
    /\ hashCode(key[u]) = hashCode(key[t])
    /\ locks[hashCode(key[t])] = t

\* The number of locks thread t holds.
LocksHeld(t) ==
  Cardinality({i \in Buckets : locks[i] = t})
    + (IF opslock = t THEN 1 ELSE 0) + (IF sizelock = t THEN 1 ELSE 0)

\* C13: lock discipline: in every reachable state each thread holds at most
\* one lock in total: one bucket mutex, or opslock, or sizelock.
C13_OneLock == \A t \in Threads : LocksHeld(t) <= 1

\* A thread that went through opslock and a bucket mutex now holds sizelock,
\* while the other thread holds a bucket mutex.
C13_Witness ==
  \E t, u \in Threads :
    /\ t # u /\ pc[t] = "size" /\ LocksHeld(t) = 1
    /\ pc[u] = "scan" /\ LocksHeld(u) = 1

\* C14: deadlock freedom and completion: while a call is in progress some
\* thread can take a step of its call, so that under fair scheduling every
\* call returns; and a thread that is not inside a call holds no lock.
C14_NoDeadlock ==
  /\ (\E t \in Threads : Active(t)) => ENABLED (\E t \in Threads : Step(t))
  /\ \A t \in Threads : pc[t] \in {"idle", "ret"} => LocksHeld(t) = 0

\* Thread u is inside a call whose key belongs to bucket i.
OperatesOn(u, i) == Active(u) /\ hashCode(key[u]) = i

\* No thread other than t is inside a call on t's bucket.
AloneOnBucket(t) ==
  \A u \in Threads \ {t} : ~OperatesOn(u, hashCode(key[t]))

\* C15: bucket independence: a thread whose call targets bucket B can take
\* its next step whenever no other thread is operating on bucket B,
\* whatever the threads operating on other buckets hold.
C15_Independent ==
  \A t \in Threads : (Active(t) /\ AloneOnBucket(t)) => ENABLED Step(t)

\* C15 as the code has it: a thread alone on its bucket never waits for the
\* bucket mutex; it may wait for opslock or sizelock, which all buckets
\* share, only while the holder, which holds no other lock, updates the
\* counter.
C15_IndependentBuckets ==
  \A t \in Threads : (Active(t) /\ AloneOnBucket(t)) =>
    /\ pc[t] = "bucketlock" => locks[hashCode(key[t])] = 0
    /\ (pc[t] = "opslock" /\ opslock # 0) =>
         pc[opslock] = "numops" /\ LocksHeld(opslock) = 1
    /\ (pc[t] = "sizelock" /\ sizelock # 0) =>
         pc[sizelock] = "size" /\ LocksHeld(sizelock) = 1

\* A thread waits for sizelock while the other thread, which operates on
\* another bucket, holds it.
C15_Witness ==
  \E t, u \in Threads :
    /\ t # u /\ AloneOnBucket(t) /\ Active(u)
    /\ pc[t] = "sizelock" /\ pc[u] = "size" /\ sizelock = u

\* -------------------------------------------------------------------- frame
\* The step leaves every entry the program has read or written as it is,
\* except the value of the entries in s, and links or unlinks nothing.
SameEntries(s) ==
  /\ table' = table
  /\ Len(heap') = Len(heap)
  /\ \A e \in (1..Len(heap)) \ uninit :
        /\ heap'[e].key = heap[e].key
        /\ heap'[e].next = heap[e].next
        /\ e \notin s => heap'[e].value = heap[e].value

\* Thread t takes a step of its call, which is a call of o.
StepOf(t, o) == pc[t] # "idle" /\ Moves(t) /\ op[t] = o

C16_Frame ==
  \A t \in Threads :
    /\ StepOf(t, "get") => size' = size /\ SameEntries({}) /\ numOps' \in {numOps, numOps + 1}
    /\ (StepOf(t, "del") /\ pc[t] = "scan" /\ KeyEntries(key[t]) = {}) =>
         size' = size /\ SameEntries({}) /\ pc'[t] \in {"ret", "segv"}
    /\ (StepOf(t, "put") /\ pc[t] = "scan" /\ KeyEntries(key[t]) # {}) =>
         size' = size /\ SameEntries(KeyEntries(key[t])) /\ pc'[t] = "ret"
    /\ (pc'[t] = "ret" /\ pc[t] \in {"scan", "getread"}) => dsize'[t] = 0

FreeCount(e) == Cardinality({n \in 1..Len(frees) : frees[n] = e})

\* The entries malloc'ed by put (line 80); those of initmap come first.
PutEntries == (capacity + 1)..Len(heap)

\* C17: every entry allocated by put is released exactly once, by the del
\* that unlinks it or by the single freeMap call made when no call is in
\* progress; after freeMap no entry remains allocated, and no entry or
\* bucket head has been released twice.
C17_ReleasedOnce ==
  /\ \A e \in 1..Len(heap) : FreeCount(e) <= 1
  /\ torn => \A e \in PutEntries : FreeCount(e) = 1
  /\ (Quiescent /\ ~torn) => \A e \in PutEntries \ Entries : FreeCount(e) = 1

\* ------------------------------------------------------------ size accounting
\* The calls of o that have linked or unlinked their entry (lines 81-84,
\* 126-127) and not yet updated size (lines 90, 130).
Pending(o) == {t \in Threads : op[t] = o /\ pc[t] \in {"sizelock", "size"}}

\* C18: size accounting under concurrency: in every reachable state size
\* equals the number of entries reachable across all chains, minus the puts
\* that have linked an entry and not yet incremented size, plus the dels
\* that have unlinked an entry and not yet decremented it.
C18_SizeAccounting ==
  size = Cardinality(Entries) - Cardinality(Pending("put")) + Cardinality(Pending("del"))

\* ------------------------------------------------------------ entry accesses
\* Thread t is about to read current->value in get (line 47).
ReadsValue(t) == pc[t] = "getread"

C19_Reads ==
  \A t \in Threads : (ReadsValue(t) /\ current[t] \in Entries) =>
    /\ Moves(t) => locks[hashCode(key[t])] = t
    /\ ~Moves(t) => heap'[current[t]].value = heap[current[t]].value

\* C19: no unprotected access to entry contents: a call reads the value of
\* an entry that is linked in a chain only while it holds the bucket's
\* mutex, and no put overwrites that value between the scan of a get and
\* its read, so that get returns a value the key had while get held the
\* lock.
C19_ProtectedReads == [][C19_Reads]_vars

\* ------------------------------------------------------------------- chains
\* The keys the calls so far have put and not deleted that belong to
\* bucket i.
PutKeys(i) == {k \in DOMAIN abs : hashCode(k) = i}

\* C20: chain well-formedness: in every reachable state every bucket's
\* chain ends with NULL and holds exactly the entries created by put for
\* the keys of that bucket that have not been deleted since; in particular
\* the entry a put links into an empty bucket has NULL as its next.
C20_WellFormed ==
  \A i \in Buckets :
    /\ ~EndsWild(heap, table[i])
    /\ Chain(table[i]) \subseteq PutEntries
    /\ {heap[e].key : e \in Chain(table[i])} = PutKeys(i)
====
